---- MODULE Spec2Model ----
(***************************************************************************)
(* Model of the validated query-retry protocol of agentlab.llm.llm_utils   *)
(* (retry, retry_raise, _extract_wait_time, parse_html_tags).              *)
(*                                                                         *)
(* Texts are sequences of tokens.  A token is either free text or one      *)
(* non-nested occurrence <tag>inner</tag>.  Durations are whole seconds.   *)
(***************************************************************************)
EXTENDS Integers, Sequences, FiniteSets, TLC

(* ------------------------------ bounds --------------------------------- *)

\* largest n_retry a session is started with
MaxNRetry == 3
\* largest min_retry_wait_time a session is started with
MaxMinWait == 2
\* largest rate_limit_max_wait_time a session is started with
MaxMaxWait == 3
\* largest number of seconds an endpoint's "try again in <n>s" hint names
MaxHint == 3
\* the observers that count endpoint invocations and sleeps stop at this value
MaxCount == 6

\* largest number of lines of the text a Trunkater is built with
MaxLines == 5
\* number of lines of the long text a Trunkater is built with
LongLines == 90
\* largest start_trunkate_iteration a plain Trunkater is built with
MaxStart == 2
\* largest number of lines of the html and the axtree of an observation
MaxObsLines == 2
\* the caller stops calling shrink() directly after this many calls
MaxShrinkCalls == 12
\* the flags are changed at most this many times
MaxFlips == 1
\* a 20-line text: shrink_speed 0.3 keeps 14 of its lines
SpecLines == 20
\* largest max_prompt_tokens fit_tokens is called with
MaxTokens == 18
\* largest max_iterations fit_tokens is called with
MaxIterations == 2
\* the caller calls shrink() at most this many times before fit_tokens
MaxPreShrinks == 6
\* largest number of lines of the texts diff is called with
MaxDiffLen == 3
\* largest number of steps of a History
MaxSteps == 2
\* largest max_line_diff a plain Diff is built with
MaxLineDiff == 4
\* largest shrink_speed a plain Diff is built with
MaxDiffSpeed == 2

\* parse_html_tags: the longest list of keys, the most pieces of a text
MaxKeys == 2
MaxTags == 3

(* ------------------------------ helpers -------------------------------- *)

Max(a, b) == IF a >= b THEN a ELSE b

MinOf(S) == CHOOSE x \in S : \A y \in S : x <= y

IsPrefix(s, t) == Len(s) <= Len(t) /\ SubSeq(t, 1, Len(s)) = s

Bump(c) == IF c < MaxCount THEN c + 1 ELSE c

\* the element of a set of one element
The(S) == CHOOSE x \in S : TRUE

(* ------------------------------ texts ---------------------------------- *)

Plain(s) == [tag |-> "", inner |-> s]

Tag(k, s) == [tag |-> k, inner |-> s]

\* str.strip() on the inner texts the endpoint produces
Strip(s) ==
    CASE s = " scroll " -> "scroll"
      [] s = "click "   -> "click"
      [] OTHER          -> s

\* the replies the endpoint can give
ReplyTexts ==
    { <<Tag("action", "click ")>>,
      <<Plain("I will scroll."), Tag("action", " scroll ")>>,
      <<Plain("I do not know.")>>,
      <<Tag("action", "click "), Plain("or"), Tag("action", " scroll ")>> }

(* ------------------- rate-limit error messages ------------------------- *)

Lit(s) == [k |-> "lit", s |-> s, n |-> 0]

Num(n) == [k |-> "num", s |-> "", n |-> n]

\* the texts e.args[0] of a RateLimitError: without a hint, with a hint in
\* seconds, and with a hint in milliseconds (which the pattern does not match)
HintMessage(h) ==
    <<Lit("Rate limit reached. Please "), Lit("try again in "), Num(h), Lit("s")>>

ErrorMessages ==
    { <<Lit("Rate limit reached.")>> }
    \cup { HintMessage(h) : h \in 0..MaxHint }
    \cup { <<Lit("Rate limit reached. Please "), Lit("try again in "), Num(MaxHint), Lit("ms")>> }

\* re.search(r"try again in (\d+(\.\d+)?)s", error_message): the positions
\* where the pattern matches
HintMatches(error_message) ==
    { i \in 1..(Len(error_message) - 2) :
          /\ error_message[i] = Lit("try again in ")
          /\ error_message[i + 1].k = "num"
          /\ error_message[i + 2] = Lit("s") }

ExtractWaitTimeNoFloor(error_message, min_wait) ==
    LET m == HintMatches(error_message)
    IN  IF m # {} THEN error_message[MinOf(m) + 1].n ELSE min_wait

_extract_wait_time(error_message, min_wait) ==
    LET m == HintMatches(error_message)
    IN  IF m # {}
        THEN Max(min_wait, error_message[MinOf(m) + 1].n)
        ELSE min_wait

(* ------------------------------ parser --------------------------------- *)

\* re.findall(f"<{key}>(.*?)</{key}>", text, re.DOTALL), each match stripped
Matches(text, key) ==
    LET idx == { i \in 1..Len(text) : text[i].tag = key }
        F[i \in 0..Len(text)] ==
            IF i = 0 THEN <<>>
            ELSE IF i \in idx THEN Append(F[i - 1], Strip(text[i].inner))
            ELSE F[i - 1]
    IN  F[Len(text)]

SeqRange(s) == { s[i] : i \in 1..Len(s) }

extract_html_tags(text, keys) ==
    [ key \in { k \in SeqRange(keys) : Matches(text, k) # <<>> } |-> Matches(text, key) ]

MissingMessage(key) ==
    CASE key = "action" -> "Missing the key <action> in the answer."
      [] key = "think"  -> "Missing the key <think> in the answer."
      [] OTHER          -> "Missing the key <?> in the answer."

MultipleMessage(key) ==
    CASE key = "action" -> "Found multiple instances of the key action. You should have only one of them."
      [] key = "think"  -> "Found multiple instances of the key think. You should have only one of them."
      [] OTHER          -> "Found multiple instances of the key ?. You should have only one of them."

\* A str is the sequence of the lines it holds; the characters of a line
\* the endpoint can produce (a line of one character is that character)
Chars(line) ==
    CASE line = ""       -> <<>>
      [] line = "go"     -> <<"g", "o">>
      [] line = "click"  -> <<"c", "l", "i", "c", "k">>
      [] line = "scroll" -> <<"s", "c", "r", "o", "l", "l">>
      [] OTHER           -> <<line>>

RECURSIVE CharsBetween(_, _, _)
\* the characters of the lines lo..hi of a str, "\n" between two lines
CharsBetween(str, lo, hi) ==
    IF lo = hi THEN Chars(str[lo])
    ELSE LET mid == (lo + hi) \div 2
         IN  CharsBetween(str, lo, mid) \o <<"\n">> \o CharsBetween(str, mid + 1, hi)

\* the characters of a str
CharsOf(str) == CharsBetween(str, 1, Len(str))

\* the str of one character
CharStr(c) == IF c = "\n" THEN <<"", "">> ELSE <<c>>

RECURSIVE JoinBetween(_, _, _)
\* "\n".join(val[lo..hi]) of strs: the lines of all of them
JoinBetween(val, lo, hi) ==
    IF lo = hi THEN val[lo]
    ELSE LET mid == (lo + hi) \div 2
         IN  JoinBetween(val, lo, mid) \o JoinBetween(val, mid + 1, hi)

\* "\n".join(val) of a sequence of strs
JoinStrs(val) == IF val = <<>> THEN <<"">> ELSE JoinBetween(val, 1, Len(val))

\* content_dict[key] as extract_html_tags leaves it: a list of strs
ListEntry(matches) ==
    [islist |-> TRUE, str |-> <<"">>,
     items |-> [i \in 1..Len(matches) |-> <<matches[i]>>]]

\* content_dict[key] once the loop has assigned it: a str, which iterates
\* over its characters
StrEntry(str) ==
    The({ [islist |-> FALSE, str |-> str,
           items |-> [i \in 1..Len(chars) |-> CharStr(chars[i])]] :
          chars \in {CharsOf(str)} })

\* one pass of "for key in all_keys" over the state of the loop
ParseKey(st, key, optional_keys, merge_multiple) ==
    IF st.raised # "" THEN st
    ELSE IF key \notin DOMAIN st.content_dict
    THEN IF key \notin SeqRange(optional_keys)
         THEN [st EXCEPT !.retry_messages = Append(@, Plain(MissingMessage(key)))]
         ELSE st
    ELSE LET val == st.content_dict[key].items
         IN  IF Len(val) = 0
             THEN [st EXCEPT !.raised = "IndexError"]
             ELSE IF Len(val) > 1
             THEN IF ~merge_multiple
                  THEN [st EXCEPT !.content_dict[key] = StrEntry(val[1]),
                                  !.retry_messages =
                                       Append(@, Plain(MultipleMessage(key)))]
                  ELSE [st EXCEPT !.content_dict[key] = StrEntry(JoinStrs(val))]
             ELSE [st EXCEPT !.content_dict[key] = StrEntry(val[1])]

\* The correction message is the sequence of the accumulated messages, one
\* per line; raised names the exception val[0] raises on an empty str.
parse_html_tags(text, keys, optional_keys, merge_multiple) ==
    LET all_keys == keys \o optional_keys
        found == extract_html_tags(text, all_keys)
        Loop[i \in 0..Len(all_keys)] ==
            IF i = 0
            THEN [content_dict |-> [key \in DOMAIN found |-> ListEntry(found[key])],
                  retry_messages |-> <<>>,
                  raised |-> ""]
            ELSE The({ ParseKey(st, all_keys[i], optional_keys, merge_multiple) :
                          st \in {Loop[i - 1]} })
    IN  The({ IF st.raised # ""
              THEN [ value |-> [key \in {} |-> <<"">>], valid |-> FALSE,
                     retry_message |-> <<>>, raised |-> st.raised ]
              ELSE [ value |-> [key \in DOMAIN st.content_dict |->
                                   st.content_dict[key].str],
                     valid |-> (Len(st.retry_messages) = 0),
                     retry_message |-> st.retry_messages,
                     raised |-> "" ] :
              st \in {Loop[Len(all_keys)]} })

\* the parser a session is run with: (value, valid, retry_message)
parser(content) == parse_html_tags(content, <<"action">>, <<>>, FALSE)

ParserRaiseNoMessage(content) ==
    LET r == parser(content)
    IN  IF ~r.valid
        THEN [raised |-> TRUE, value |-> r.value, error |-> <<>>]
        ELSE [raised |-> FALSE, value |-> r.value, error |-> <<>>]

\* the raising parser: returns the value or raises ParseError(retry_message)
parser_raise(content) ==
    LET r == parser(content)
    IN  IF ~r.valid
        THEN [raised |-> TRUE, value |-> r.value, error |-> r.retry_message]
        ELSE [raised |-> FALSE, value |-> r.value, error |-> <<>>]

ParseInverted(f, content) ==
    LET r == parser(content)
    IN  [value |-> r.value, valid |-> ~r.valid, retry_message |-> r.retry_message]

\* what either driver sees of its parser: retry unpacks the tuple,
\* retry_raise catches ParseError and takes str(parsing_error)
Parse(f, content) ==
    IF f = "retry"
    THEN parser(content)
    ELSE LET r == parser_raise(content)
         IN  [value |-> r.value, valid |-> ~r.raised, retry_message |-> r.error]

(* ------------------------------ state ---------------------------------- *)

VARIABLES
    fn,                        \* the driver run: "retry" or "retry_raise"
    n_retry,                   \* parameter
    min_retry_wait_time,       \* parameter
    rate_limit_max_wait_time,  \* parameter
    initial,                   \* the conversation the session was started with
    messages,                  \* the conversation, mutated in place
    tries,                     \* parse failures so far
    rate_limit_total_delay,    \* accrued rate-limit delay
    pc,                        \* position of the driver
    answer,                    \* the reply chat.invoke returned
    error,                     \* e.args[0] of the RateLimitError caught
    wait_time,                 \* the duration of the last time.sleep
    result,                    \* the value returned
    invocations,               \* observer: calls of chat.invoke
    sleeps                     \* observer: calls of time.sleep

\* the prompt elements and fit_tokens (agentlab.agents.dynamic_prompting)
VARIABLES
    root,                      \* the element shrink() and fit_tokens are called on
    flags,                     \* the ObsFlags the visibility callables read
    el,                        \* the state of every element, by attribute name
    image,                     \* the image part of a list prompt, 0 for a str prompt
    fpc,                       \* position of fit_tokens
    max_prompt_tokens,         \* parameter of fit_tokens
    max_iterations,            \* parameter of fit_tokens
    iter,                      \* iterations of the for loop started
    prompt,                    \* local of fit_tokens: the last rendered prompt
    n_token,                   \* local of fit_tokens: the last token count
    shrinks,                   \* observer: calls of root.shrink() by the caller
    fit_shrinks,               \* observer: calls of root.shrink() by fit_tokens
    flips                      \* observer: changes of a flag

rvars == <<fn, n_retry, min_retry_wait_time, rate_limit_max_wait_time, initial,
           messages, tries, rate_limit_total_delay, pc, answer, error,
           wait_time, result, invocations, sleeps>>

pvars == <<root, flags, el, image, fpc, max_prompt_tokens, max_iterations,
           iter, prompt, n_token, shrinks, fit_shrinks, flips>>

\* the pure functions diff and parse_html_tags: arguments and result
VARIABLES
    previous,                  \* argument of diff
    new,                       \* argument of diff
    diffed,                    \* what diff returned
    arg_text,                  \* argument text of parse_html_tags
    arg_keys,                  \* argument keys of parse_html_tags
    arg_optional_keys,         \* argument optional_keys of parse_html_tags
    arg_merge_multiple,        \* argument merge_multiple of parse_html_tags
    parsed                     \* what parse_html_tags returned

fvars == <<previous, new, diffed, arg_text, arg_keys, arg_optional_keys,
           arg_merge_multiple, parsed>>

vars == <<rvars, pvars, fvars>>

params == <<fn, n_retry, min_retry_wait_time, rate_limit_max_wait_time, initial>>

AI(content) == [role |-> "ai", content |-> content]

HumanMessage(content) == [role |-> "human", content |-> content]

InitialConversations ==
    { <<[role |-> "system", content |-> <<Plain("You are a web agent.")>>],
        HumanMessage(<<Plain("Click the button.")>>)>>,
      <<HumanMessage(<<Plain("Scroll down.")>>)>> }

NoAnswer == AI(<<>>)

NoValue == [none |-> TRUE]

Terminal == {"Returned", "RetryError", "RateLimitError"}

\* neither diff nor parse_html_tags is called on its own
FunctionsIdle ==
    /\ previous = <<>>
    /\ new = <<>>
    /\ diffed = [done |-> FALSE]
    /\ arg_text = <<>>
    /\ arg_keys = <<>>
    /\ arg_optional_keys = <<>>
    /\ arg_merge_multiple = FALSE
    /\ parsed = [done |-> FALSE]

\* no prompt element is built and fit_tokens is not called
PromptIdle ==
    /\ root = "none"
    /\ flags = [f \in {} |-> FALSE]
    /\ el = [e \in {} |-> FALSE]
    /\ image = 0
    /\ fpc = "Off"
    /\ max_prompt_tokens = [none |-> TRUE, v |-> 0]
    /\ max_iterations = 0
    /\ iter = 0
    /\ prompt = [list |-> FALSE, parts |-> <<>>]
    /\ n_token = 0
    /\ shrinks = 0
    /\ fit_shrinks = 0
    /\ flips = 0

Init ==
    /\ fn \in {"retry", "retry_raise"}
    /\ n_retry \in 0..MaxNRetry
    /\ min_retry_wait_time \in 0..MaxMinWait
    /\ rate_limit_max_wait_time \in 0..MaxMaxWait
    /\ initial \in InitialConversations
    /\ messages = initial
    /\ tries = 0
    /\ rate_limit_total_delay = 0
    /\ pc = "Start"
    /\ answer = NoAnswer
    /\ error = <<>>
    /\ wait_time = 0
    /\ result = NoValue
    /\ invocations = 0
    /\ sleeps = 0
    /\ PromptIdle
    /\ FunctionsIdle

(* ------------------------------ driver --------------------------------- *)

WhileCondTriesOnly(t, d) == t < n_retry

\* while tries < n_retry and rate_limit_total_delay < rate_limit_max_wait_time
WhileCond(t, d) == t < n_retry /\ d < rate_limit_max_wait_time

\* the loop test: enter the body (invoke the endpoint) or fall out of the
\* loop to the final raise RetryError
LoopTest(t, d) == IF WhileCond(t, d) THEN "Sending" ELSE "RetryError"

\* a value interpolated into the text of an exception
IntPart(n) == [kind |-> "int", n |-> n, text |-> <<>>]

\* RetryError(f"Could not parse a valid value after {n_retry} retries."):
\* the values the text of the exception is built from
RetryErrorParts == <<IntPart(n_retry)>>

\* tries = 0; rate_limit_total_delay = 0; first loop test
Start ==
    /\ UNCHANGED <<pvars, fvars>>
    /\ pc = "Start"
    /\ pc' = LoopTest(tries, rate_limit_total_delay)
    /\ UNCHANGED <<params, messages, tries, rate_limit_total_delay, answer,
                   error, wait_time, result, invocations, sleeps>>

\* answer = chat.invoke(messages) returns a reply
InvokeReply ==
    /\ UNCHANGED <<pvars, fvars>>
    /\ pc = "Sending"
    /\ \E text \in ReplyTexts : answer' = AI(text)
    /\ invocations' = Bump(invocations)
    /\ pc' = "Answered"
    /\ UNCHANGED <<params, messages, tries, rate_limit_total_delay, error,
                   wait_time, result, sleeps>>

\* chat.invoke(messages) raises RateLimitError
InvokeRateLimit ==
    /\ UNCHANGED <<pvars, fvars>>
    /\ pc = "Sending"
    /\ \E e \in ErrorMessages : error' = e
    /\ invocations' = Bump(invocations)
    /\ pc' = "RateLimited"
    /\ UNCHANGED <<params, messages, tries, rate_limit_total_delay, answer,
                   wait_time, result, sleeps>>

\* where the handler goes once it has slept: re-raise or continue
AfterSleepNoRaise(d) == LoopTest(tries, d)

AfterSleep(d) ==
    IF d >= rate_limit_max_wait_time THEN "RateLimitError" ELSE LoopTest(tries, d)

HandleRateLimitCountingTry ==
    /\ UNCHANGED <<pvars, fvars>>
    /\ pc = "RateLimited"
    /\ LET w == _extract_wait_time(error, min_retry_wait_time)
       IN  /\ wait_time' = w
           /\ sleeps' = Bump(sleeps)
           /\ rate_limit_total_delay' = rate_limit_total_delay + w
           /\ tries' = tries + 1
           /\ pc' = IF rate_limit_total_delay + w >= rate_limit_max_wait_time
                    THEN "RateLimitError"
                    ELSE LoopTest(tries + 1, rate_limit_total_delay + w)
    /\ UNCHANGED <<params, messages, answer, error, result, invocations>>

\* except RateLimitError: sleep, accrue, re-raise or continue
HandleRateLimit ==
    /\ UNCHANGED <<pvars, fvars>>
    /\ pc = "RateLimited"
    /\ LET w == _extract_wait_time(error, min_retry_wait_time)
       IN  /\ wait_time' = w
           /\ sleeps' = Bump(sleeps)
           /\ rate_limit_total_delay' = rate_limit_total_delay + w
           /\ pc' = AfterSleep(rate_limit_total_delay + w)
    /\ UNCHANGED <<params, messages, tries, answer, error, result, invocations>>

\* messages.append(answer); the parser accepts; return value
ParseAccept ==
    /\ UNCHANGED <<pvars, fvars>>
    /\ pc = "Answered"
    /\ LET r == Parse(fn, answer.content)
       IN  /\ r.valid
           /\ messages' = Append(messages, answer)
           /\ result' = r.value
           /\ pc' = "Returned"
    /\ UNCHANGED <<params, tries, rate_limit_total_delay, answer, error,
                   wait_time, invocations, sleeps>>

\* the conversation after a rejected reply
RejectedConversationGuarded(msgs, ans, retry_message, t) ==
    IF t < n_retry
    THEN Append(Append(msgs, ans), HumanMessage(retry_message))
    ELSE Append(msgs, ans)

RejectedConversationReplaced(msgs, ans, retry_message, t) ==
    Append(msgs, HumanMessage(retry_message))

RejectedConversationTrimmed(msgs, ans, retry_message, t) ==
    <<msgs[Len(msgs)], ans, HumanMessage(retry_message)>>

RejectedConversation(msgs, ans, retry_message, t) ==
    Append(Append(msgs, ans), HumanMessage(retry_message))

TriesAfterReject(t) == t + 1

\* messages.append(answer); the parser rejects; tries += 1;
\* messages.append(HumanMessage(retry_message)); loop test
ParseReject ==
    /\ UNCHANGED <<pvars, fvars>>
    /\ pc = "Answered"
    /\ LET r == Parse(fn, answer.content)
       IN  /\ ~r.valid
           /\ tries' = TriesAfterReject(tries)
           /\ messages' = RejectedConversation(messages, answer, r.retry_message,
                                               TriesAfterReject(tries))
           /\ pc' = LoopTest(TriesAfterReject(tries), rate_limit_total_delay)
    /\ UNCHANGED <<params, rate_limit_total_delay, answer, error, wait_time,
                   result, invocations, sleeps>>

Next ==
    \/ Start
    \/ InvokeReply
    \/ InvokeRateLimit
    \/ HandleRateLimit
    \/ ParseAccept
    \/ ParseReject

Spec == Init /\ [][Next]_vars

\* the endpoint always answers and the driver always takes its next step
FairSpec == Spec /\ WF_vars(Next)

(* ------------------------- strings of lines ---------------------------- *)

\* A str is the sequence of its lines, split at every "\n": "" is one empty
\* line, "a\n" is the line a and an empty line.  A line is a sequence of atoms.
Atom(k, n) == [k |-> k, n |-> n]

OneLine(k, n) == <<Atom(k, n)>>

EmptyStr == << <<>> >>

\* "\n"
Newline == << <<>>, <<>> >>

\* s + t
Cat(s, t) ==
    The({ SubSeq(a, 1, Len(a) - 1) \o <<a[Len(a)] \o b[1]>> \o SubSeq(b, 2, Len(b)) :
             a \in {s}, b \in {t} })

\* str.splitlines(): a final line break opens no further line
splitlines(s) == IF s[Len(s)] = <<>> THEN SubSeq(s, 1, Len(s) - 1) ELSE s

\* "\n".join(lines)
join(lines) == IF lines = <<>> THEN EmptyStr ELSE lines

\* n lines of text
Text(n) == [i \in 1..n |-> OneLine("text", i)]

\* len(enc.encode(text)): one token per atom and per line break
count_tokens(text) ==
    LET Sum[i \in 0..Len(text)] == IF i = 0 THEN 0 ELSE Sum[i - 1] + Len(text[i])
    IN  Sum[Len(text)] + Len(text) - 1

(* ------------------------------ diff ----------------------------------- *)

\* the first character that is not a blank of a line of the texts compared:
\* the line "- item" starts with "-", the line "+1" starts with "+"
FirstOfContent(content) ==
    IF content = <<>> THEN ""
    ELSE CASE content[1].k = "- item" -> "-"
           [] content[1].k = "+1"     -> "+"
           [] OTHER                   -> "t"

\* the first character of line.strip() for a line of ndiff: strip() removes
\* the tag "  " of an unchanged line
FirstNonBlank(line) ==
    CASE line[1].k = "- " -> "-"
      [] line[1].k = "+ " -> "+"
      [] OTHER            -> FirstOfContent(Tail(line))

\* SequenceMatcher.find_longest_match on a[alo..ahi] and b[blo..bhi]: the
\* longest common block, of those the one that starts earliest in a, and of
\* those the one that starts earliest in b
CommonBlocks(a, alo, ahi, b, blo, bhi) ==
    { m \in (alo..ahi) \X (blo..bhi) \X (1..(ahi - alo + 1)) :
        /\ m[1] + m[3] - 1 <= ahi
        /\ m[2] + m[3] - 1 <= bhi
        /\ \A d \in 0..(m[3] - 1) : a[m[1] + d] = b[m[2] + d] }

find_longest_match(a, alo, ahi, b, blo, bhi) ==
    LET C == CommonBlocks(a, alo, ahi, b, blo, bhi)
    IN  CHOOSE m \in C : \A o \in C :
            \/ m[3] > o[3]
            \/ m[3] = o[3] /\ m[1] < o[1]
            \/ m[3] = o[3] /\ m[1] = o[1] /\ m[2] <= o[2]

\* Differ._dump(tag, x, lo, hi): the lines of x, each after the two-character tag
Dump(tag, x, lo, hi) ==
    [i \in 1..(hi - lo + 1) |-> <<Atom(tag, 0)>> \o x[lo + i - 1]]

\* Differ._plain_replace: the lines compared are too unlike one another for
\* _fancy_replace to pair them, so that no "? " line is produced
PlainReplace(a, alo, ahi, b, blo, bhi) ==
    IF bhi - blo < ahi - alo
    THEN Dump("+ ", b, blo, bhi) \o Dump("- ", a, alo, ahi)
    ELSE Dump("- ", a, alo, ahi) \o Dump("+ ", b, blo, bhi)

RECURSIVE Compare(_, _, _, _, _, _)
\* Differ.compare over the opcodes of SequenceMatcher
Compare(a, alo, ahi, b, blo, bhi) ==
    IF CommonBlocks(a, alo, ahi, b, blo, bhi) = {}
    THEN IF alo <= ahi /\ blo <= bhi THEN PlainReplace(a, alo, ahi, b, blo, bhi)
         ELSE IF alo <= ahi THEN Dump("- ", a, alo, ahi)
         ELSE IF blo <= bhi THEN Dump("+ ", b, blo, bhi)
         ELSE <<>>
    ELSE LET m == find_longest_match(a, alo, ahi, b, blo, bhi)
         IN  Compare(a, alo, m[1] - 1, b, blo, m[2] - 1)
             \o Dump("  ", a, m[1], m[1] + m[3] - 1)
             \o Compare(a, m[1] + m[3], ahi, b, m[2] + m[3], bhi)

\* difflib.ndiff(a, b)
ndiff(a, b) == Compare(a, 1, Len(a), b, 1, Len(b))

\* line.strip().startswith(c)
StripStartsWith(line, c) == FirstNonBlank(line) = c

\* f"{plus_count} lines added and {minus_count} lines removed:"
CountsHeader(plus_count, minus_count) ==
    <<Atom("lines added and", plus_count), Atom("lines removed:", minus_count)>>

\* diff(previous, new): (header, diff_lines)
diff(prev, nw) ==
    IF prev = nw THEN [header |-> <<Atom("Identical", 0)>>, diff_lines |-> <<>>]
    ELSE IF prev = EmptyStr
    THEN [header |-> <<Atom("previous is empty", 0)>>, diff_lines |-> <<>>]
    ELSE LET diff_gen == ndiff(splitlines(prev), splitlines(nw))
             plus == SelectSeq(diff_gen, LAMBDA l : StripStartsWith(l, "+"))
             minus == SelectSeq(diff_gen,
                          LAMBDA l : ~StripStartsWith(l, "+") /\ StripStartsWith(l, "-"))
         IN  [header |-> CountsHeader(Len(plus), Len(minus)),
              diff_lines |-> SelectSeq(diff_gen,
                                 LAMBDA l : StripStartsWith(l, "+") \/ StripStartsWith(l, "-"))]

(* ------------------------- prompt elements ----------------------------- *)

FlagNames == {"use_html", "use_ax_tree", "use_focused_element", "use_error_logs"}

\* visible=<bool>
ConstVisible(b) == [flag |-> "", flag2 |-> "", const |-> b]

\* visible=lambda: flags.<flag> and <b>
FlagVisible(f, b) == [flag |-> f, flag2 |-> "", const |-> b]

\* visible=lambda: flags.<flag> and flags.<flag2>
BothFlagsVisible(f, g) == [flag |-> f, flag2 |-> g, const |-> TRUE]

IsVisibleAsBuilt(e) == e.visible.const

\* PromptElement.is_visible: a callable is called at every use
is_visible(e) ==
    IF e.visible.flag = ""
    THEN e.visible.const
    ELSE /\ flags[e.visible.flag]
         /\ e.visible.flag2 = "" \/ flags[e.visible.flag2]
         /\ e.visible.const

\* PromptElement._hide
_hide(e, value) == IF is_visible(e) THEN value ELSE EmptyStr

\* PromptElement.prompt of an element that stores its _prompt
ElementPrompt(e) == _hide(e, e.text)

PromptElement(visible, text) == [visible |-> visible, text |-> text]

\* Think: _prompt = "", with an abstract and a concrete example
Think(visible) ==
    [visible |-> visible,
     text |-> EmptyStr,
     abstract_ex |-> << <<>>, OneLine("<think>", 0), OneLine("Think step by step.", 0),
                        OneLine("</think>", 0), <<>> >>,
     concrete_ex |-> << <<>>, OneLine("<think>", 0), OneLine("My memory says", 0),
                        OneLine("</think>", 0), <<>> >>]

\* PromptElement.abstract_ex; the class attribute _abstract_ex is ""
abstract_ex(e) == _hide(e, IF "abstract_ex" \in DOMAIN e THEN e.abstract_ex ELSE EmptyStr)

\* PromptElement.concrete_ex; the class attribute _concrete_ex is ""
concrete_ex(e) == _hide(e, IF "concrete_ex" \in DOMAIN e THEN e.concrete_ex ELSE EmptyStr)

\* Trunkater.__init__ followed by the assignment of _prompt
Trunkater(visible, shrink_speed, start_trunkate_iteration, text) ==
    [visible |-> visible,
     shrink_speed |-> shrink_speed,
     start_trunkate_iteration |-> start_trunkate_iteration,
     shrink_calls |-> 0,
     deleted_lines |-> 0,
     text |-> text]

\* shrink_speed in tenths: the default 0.3, and 0.8
ShrinkSpeeds == {3, 8}

\* len(lines) * (1 - shrink_speed) is computed in doubles: 1 - 0.8 is
\* 0.19999999999999996 and 90 * (1 - 0.3) is 62.99999999999999, so that the
\* product is just below the whole number it would be (for n < 130)
DoubleBelowInteger(n, speed) ==
    \/ speed = 8 /\ n > 0 /\ n % 5 = 0
    \/ speed = 3 /\ n = 90

NewLineCountExact(n, speed) == (n * (10 - speed)) \div 10

NewLineCountHalf(n, speed) == n \div 2

\* int(len(lines) * (1 - self.shrink_speed))
NewLineCount(n, speed) ==
    IF DoubleBelowInteger(n, speed)
    THEN ((n * (10 - speed)) \div 10) - 1
    ELSE (n * (10 - speed)) \div 10

\* f"\n... Deleted {self.deleted_lines} lines to reduce prompt size."
DeletedMarker(n) == << <<>>, OneLine("... Deleted lines to reduce prompt size.", n) >>

TrunkaterShrinkNoGrace(e) ==
    IF is_visible(e)
    THEN LET lines == splitlines(e.text)
             new_line_count == NewLineCount(Len(lines), e.shrink_speed)
             deleted == e.deleted_lines + Len(lines) - new_line_count
         IN  [e EXCEPT !.deleted_lines = deleted,
                       !.text = Cat(join(SubSeq(lines, 1, new_line_count)),
                                    DeletedMarker(deleted)),
                       !.shrink_calls = @ + 1]
    ELSE [e EXCEPT !.shrink_calls = @ + 1]

TrunkaterShrinkHiddenSkips(e) ==
    IF ~is_visible(e)
    THEN e
    ELSE IF e.shrink_calls >= e.start_trunkate_iteration
    THEN LET lines == splitlines(e.text)
             new_line_count == NewLineCount(Len(lines), e.shrink_speed)
             deleted == e.deleted_lines + Len(lines) - new_line_count
         IN  [e EXCEPT !.deleted_lines = deleted,
                       !.text = Cat(join(SubSeq(lines, 1, new_line_count)),
                                    DeletedMarker(deleted)),
                       !.shrink_calls = @ + 1]
    ELSE [e EXCEPT !.shrink_calls = @ + 1]

\* Trunkater.shrink
TrunkaterShrink(e) ==
    IF is_visible(e) /\ e.shrink_calls >= e.start_trunkate_iteration
    THEN LET lines == splitlines(e.text)
             new_line_count == NewLineCount(Len(lines), e.shrink_speed)
             deleted == e.deleted_lines + Len(lines) - new_line_count
         IN  [e EXCEPT !.deleted_lines = deleted,
                       !.text = Cat(join(SubSeq(lines, 1, new_line_count)),
                                    DeletedMarker(deleted)),
                       !.shrink_calls = @ + 1]
    ELSE [e EXCEPT !.shrink_calls = @ + 1]

\* the note of visible_elements_only: a line and an empty line
VisibleElementsNote(visible_elements_only) ==
    IF visible_elements_only
    THEN <<OneLine("Note: only elements that are visible in the viewport are presented.", 0),
           <<>>, <<>>>>
    ELSE EmptyStr

\* the note of coord_type: a line and an empty line
CoordNote(coord_type) ==
    CASE coord_type = "center" ->
            <<OneLine("Note: center coordinates are provided in parenthesis.", 0), <<>>, <<>>>>
      [] coord_type = "box" ->
            <<OneLine("Note: bounding box of each object are provided in parenthesis.", 0),
              <<>>, <<>>>>
      [] OTHER -> EmptyStr

\* f"\n{prefix}{title}:\n"
Header(title) == << <<>>, OneLine(title, 0), <<>> >>

HTMLStart == 5

\* HTML.__init__, prefix "## "
HTML(html, visible_elements_only, visible) ==
    Trunkater(visible, 3, HTMLStart,
              Cat(Cat(Cat(Header("## HTML:"), VisibleElementsNote(visible_elements_only)),
                      html), Newline))

AXTreeStart == 10

\* AXTree.__init__, prefix "## "
AXTree(ax_tree, visible_elements_only, visible, coord_type) ==
    Trunkater(visible, 3, AXTreeStart,
              Cat(Cat(Cat(Cat(Header("## AXTree:"), CoordNote(coord_type)),
                          VisibleElementsNote(visible_elements_only)),
                      ax_tree), Newline))

\* Error.__init__, prefix "## "
Error(err, visible) ==
    PromptElement(visible, Cat(Cat(Header("## Error from previous action:"), err), Newline))

\* FocusedElement.__init__, prefix "## ": bid=... or None
FocusedElement(bid, visible) ==
    PromptElement(visible,
                  Cat(Header("## Focused element:"),
                      <<OneLine(IF bid > 0 THEN "bid=" ELSE "None", bid), <<>>>>))

\* Observation._prompt
ObservationPrompt ==
    Cat(Cat(Cat(Cat(Cat(Header("# Observation of current step:"),
                        ElementPrompt(el["html"])),
                    ElementPrompt(el["ax_tree"])),
                ElementPrompt(el["focused_element"])),
            ElementPrompt(el["error"])),
        << <<>>, <<>>, <<>> >>)

\* Diff.__init__; calls and first_max_line_diff are observers: the calls of
\* shrink() received and the max_line_diff the element was built with
Diff(prev, nw, prefix, max_line_diff, shrink_speed, visible) ==
    [visible |-> visible,
     max_line_diff |-> max_line_diff,
     header |-> diff(prev, nw).header,
     diff_lines |-> diff(prev, nw).diff_lines,
     shrink_speed |-> shrink_speed,
     prefix |-> prefix,
     calls |-> 0,
     first_max_line_diff |-> max_line_diff]

DiffShrinkUnclamped(e) ==
    [e EXCEPT !.max_line_diff = @ - e.shrink_speed, !.calls = @ + 1]

\* Diff.shrink
DiffShrink(e) ==
    [e EXCEPT !.max_line_diff = Max(1, @ - e.shrink_speed), !.calls = @ + 1]

\* f"{diff_str}\nDiff truncated, {original_count - self.max_line_diff} changes now shown."
DiffTruncated(n) == << <<>>, OneLine("Diff truncated, changes now shown.", n) >>

\* Diff._prompt
DiffPrompt(e) ==
    LET shown == join(SubSeq(e.diff_lines, 1, MinOf({e.max_line_diff, Len(e.diff_lines)})))
        diff_str == IF Len(e.diff_lines) > e.max_line_diff
                    THEN Cat(shown, DiffTruncated(Len(e.diff_lines) - e.max_line_diff))
                    ELSE shown
    IN  Cat(Cat(Cat(Cat(e.prefix, <<e.header>>), Newline), diff_str), Newline)

\* the attribute names of the elements of step i of a History
StepName(i) ==
    CASE i = 0 -> "history_steps[0]" [] i = 1 -> "history_steps[1]"
      [] i = 2 -> "history_steps[2]" [] OTHER -> "history_steps[3]"

HtmlDiffName(i) ==
    CASE i = 0 -> "history_steps[0].html_diff" [] i = 1 -> "history_steps[1].html_diff"
      [] i = 2 -> "history_steps[2].html_diff" [] OTHER -> "history_steps[3].html_diff"

AxTreeDiffName(i) ==
    CASE i = 0 -> "history_steps[0].ax_tree_diff" [] i = 1 -> "history_steps[1].ax_tree_diff"
      [] i = 2 -> "history_steps[2].ax_tree_diff" [] OTHER -> "history_steps[3].ax_tree_diff"

StepErrorName(i) ==
    CASE i = 0 -> "history_steps[0].error" [] i = 1 -> "history_steps[1].error"
      [] i = 2 -> "history_steps[2].error" [] OTHER -> "history_steps[3].error"

\* HistoryStep.__init__: the step itself; calls is an observer
HistoryStep(has_memory) ==
    [visible |-> ConstVisible(TRUE), has_memory |-> has_memory, calls |-> 0]

\* HistoryStep.__init__: the elements of step i, built from two observations
\* without an error of the last action
HistoryStepElements(i, previous_obs, current_obs, has_memory) ==
    StepName(i) :> HistoryStep(has_memory)
    @@ HtmlDiffName(i) :>
          Diff(previous_obs.html, current_obs.html, Header("### HTML diff:"), 20, 1,
               BothFlagsVisible("use_html", "use_diff"))
    @@ AxTreeDiffName(i) :>
          Diff(previous_obs.axtree_txt, current_obs.axtree_txt,
               Header("### Accessibility tree diff:"), 20, 1,
               BothFlagsVisible("use_ax_tree", "use_diff"))
    @@ StepErrorName(i) :>
          PromptElement(FlagVisible("use_error_logs", FALSE),
                        Cat(Header("### Error from previous action:"), Newline))

\* f"\n### {title}:\n{value}\n"
Titled(title, k, i) == Cat(Cat(Header(title), <<OneLine(k, i)>>), Newline)

\* HistoryStep._prompt
HistoryStepPrompt(i) ==
    Cat(Cat(Cat(Cat(Cat(
        IF flags["use_think_history"] THEN Titled("### Think:", "thought", i) ELSE EmptyStr,
        IF flags["use_action_history"] THEN Titled("### Action:", "action", i) ELSE EmptyStr),
        ElementPrompt(el[StepErrorName(i)])),
        _hide(el[HtmlDiffName(i)], DiffPrompt(el[HtmlDiffName(i)]))),
        _hide(el[AxTreeDiffName(i)], DiffPrompt(el[AxTreeDiffName(i)]))),
        IF el[StepName(i)].has_memory THEN Titled("### Memory:", "memory", i) ELSE EmptyStr)

\* History.__init__: the History itself; calls is an observer
History(n_steps) ==
    [visible |-> FlagVisible("use_history", TRUE), n_steps |-> n_steps, calls |-> 0]

\* History._prompt: "\n".join(prompts) + "\n"
HistoryPrompt ==
    LET n == el["history"].n_steps
        J[i \in 0..n] ==
            IF i = 0
            THEN <<OneLine("# History of interaction with the task:", 0), <<>>>>
            ELSE Cat(Cat(Cat(Cat(J[i - 1], Newline), <<OneLine("## step", i - 1)>>), Newline),
                     _hide(el[StepName(i - 1)], HistoryStepPrompt(i - 1)))
    IN  Cat(J[n], Newline)

\* the elements whose shrink() ends in Trunkater.shrink
Trunkaters ==
    IF root = "observation" THEN {"html", "ax_tree"}
    ELSE IF root \in {"trunkater", "html", "ax_tree"} THEN {root}
    ELSE {}

\* shrinkable.prompt as a str (an Observation is built visible)
RootText ==
    CASE root = "observation" -> ObservationPrompt
      [] root = "history"     -> _hide(el["history"], HistoryPrompt)
      [] root = "diff"        -> _hide(el["diff"], DiffPrompt(el["diff"]))
      [] OTHER                -> ElementPrompt(el[root])

\* Observation.shrink: self.ax_tree.shrink(); self.html.shrink()
ObservationShrink ==
    [el EXCEPT !["ax_tree"] = TrunkaterShrink(@), !["html"] = TrunkaterShrink(@)]

\* the Diff elements shrinkable.shrink() reaches
Diffs ==
    CASE root = "history" ->
            { HtmlDiffName(i) : i \in 0..(el["history"].n_steps - 1) }
            \cup { AxTreeDiffName(i) : i \in 0..(el["history"].n_steps - 1) }
      [] root = "diff"    -> {"diff"}
      [] OTHER            -> {}

\* the HistoryStep elements of a History
Steps ==
    IF root = "history"
    THEN { StepName(i) : i \in 0..(el["history"].n_steps - 1) }
    ELSE {}

HistoryStepShrinkHtmlDiffOnly(e, nm) ==
    IF nm \in Steps THEN [e EXCEPT !.calls = @ + 1]
    ELSE IF nm \in { HtmlDiffName(i) : i \in 0..3 } THEN DiffShrink(e)
    ELSE e

\* HistoryStep.shrink on the element nm of a step: super().shrink() does
\* nothing, then self.html_diff.shrink() and self.ax_tree_diff.shrink()
HistoryStepShrink(e, nm) ==
    IF nm \in Steps THEN [e EXCEPT !.calls = @ + 1]
    ELSE IF nm \in Diffs THEN DiffShrink(e)
    ELSE e

\* History.shrink: for step in self.history_steps: step.shrink()
HistoryShrink ==
    [nm \in DOMAIN el |->
        IF nm = "history" THEN [el[nm] EXCEPT !.calls = @ + 1]
        ELSE HistoryStepShrink(el[nm], nm)]

\* the prompt of the element nm (of a HistoryStep: visible as built)
PromptOf(nm) ==
    IF nm = "history" THEN _hide(el[nm], HistoryPrompt)
    ELSE IF nm \in Diffs THEN _hide(el[nm], DiffPrompt(el[nm]))
    ELSE IF "text" \in DOMAIN el[nm] THEN ElementPrompt(el[nm])
    ELSE EmptyStr

\* the roots that have a shrink()
Shrinkables == {"trunkater", "html", "ax_tree", "observation", "diff", "history"}

\* the elements after shrinkable.shrink()
RootShrink ==
    CASE root = "observation" -> ObservationShrink
      [] root = "history"     -> HistoryShrink
      [] root = "diff"        -> [el EXCEPT !["diff"] = DiffShrink(@)]
      [] OTHER                -> [el EXCEPT ![root] = TrunkaterShrink(@)]

(* ------------------------- prompts and parts --------------------------- *)

TextPartOf(text) == [type |-> "text", text |-> text, image_url |-> 0]

ImagePart(img) == [type |-> "image_url", text |-> EmptyStr, image_url |-> img]

\* a prompt: a str, or the list add_screenshot makes of it
\* (the text part followed by the image part)
StrPrompt(text) == [list |-> FALSE, parts |-> <<TextPartOf(text)>>]

ListPrompt(text, img) == [list |-> TRUE, parts |-> <<TextPartOf(text), ImagePart(img)>>]

\* shrinkable.prompt
RootPrompt ==
    IF image = 0 THEN StrPrompt(RootText) ELSE ListPrompt(RootText, image)

NoPrompt == [list |-> FALSE, parts |-> <<>>]

(* ------------------------- construction -------------------------------- *)

LineCounts == (0..MaxLines) \cup {SpecLines, LongLines}

AllFlags == [FlagNames -> BOOLEAN]

\* the flags no element of the root reads stay as built
FlagsOf(r) ==
    CASE r = "trunkater"   -> {"use_html"}
      [] r = "html"        -> {"use_html"}
      [] r = "ax_tree"     -> {"use_ax_tree"}
      [] r = "observation" -> FlagNames
      [] r = "diff"        -> {"use_html"}
      [] r = "think"       -> {"use_html"}
      [] r = "history"     -> {"use_history", "use_diff", "use_html", "use_ax_tree",
                               "use_think_history", "use_action_history"}

TrunkaterRoots ==
    { [r |-> "trunkater", f |-> f,
       e |-> ("trunkater" :> Trunkater(v, sp, st, join(Text(n))))] :
         f \in { g \in AllFlags : \A x \in FlagNames \ FlagsOf("trunkater") : g[x] },
         v \in {ConstVisible(TRUE), FlagVisible("use_html", TRUE)},
         sp \in ShrinkSpeeds, st \in 0..MaxStart, n \in LineCounts }

HTMLRoots ==
    { [r |-> "html", f |-> f,
       e |-> ("html" :> HTML(join(Text(n)), note, FlagVisible("use_html", TRUE)))] :
         f \in { g \in AllFlags : \A x \in FlagNames \ FlagsOf("html") : g[x] },
         n \in 0..MaxObsLines, note \in BOOLEAN }

AXTreeRoots ==
    { [r |-> "ax_tree", f |-> f,
       e |-> ("ax_tree" :> AXTree(join(Text(n)), FALSE, FlagVisible("use_ax_tree", TRUE), c))] :
         f \in { g \in AllFlags : \A x \in FlagNames \ FlagsOf("ax_tree") : g[x] },
         n \in 0..MaxObsLines, c \in {"False", "center", "box"} }

\* Observation.__init__: use_focused_element is read when the element is built
ObservationRoots ==
    { [r |-> "observation", f |-> f,
       e |-> ( "html" :> HTML(join(Text(n)), FALSE, FlagVisible("use_html", TRUE))
            @@ "ax_tree" :> AXTree(join(Text(m)), FALSE, FlagVisible("use_ax_tree", TRUE), "False")
            @@ "error" :> Error(join(Text(k)), FlagVisible("use_error_logs", k > 0))
            @@ "focused_element" :> FocusedElement(1, ConstVisible(f["use_focused_element"])) )] :
         f \in AllFlags, n \in {0, MaxObsLines}, m \in {0, MaxObsLines}, k \in {0, 1} }

\* the pairs of texts a plain Diff is built from: 0, 2, 3 and 4 diff lines
DiffPairs ==
    { <<Text(2), Text(2)>>,
      <<Text(3), <<OneLine("text", 1), OneLine("- item", 0), OneLine("text", 3)>> >>,
      <<Text(3), <<OneLine("text", 1)>> \o Text(2)>>,
      <<Text(1) \o Text(3), <<OneLine("- item", 0)>> >> }

DiffRoots ==
    { [r |-> "diff", f |-> f,
       e |-> ("diff" :> Diff(pr[1], pr[2], Header("### HTML diff:"), m, sp, v))] :
         f \in { g \in AllFlags : \A x \in FlagNames \ FlagsOf("diff") : g[x] },
         pr \in DiffPairs, m \in 1..MaxLineDiff, sp \in 1..MaxDiffSpeed,
         v \in {ConstVisible(TRUE), FlagVisible("use_html", TRUE)} }

\* the flags a History and its steps read
HistoryFlagNames ==
    FlagsOf("history") \cup {"use_error_logs", "use_past_error_logs"}

\* all flags set, or all but one
HistoryFlags ==
    { g \in [HistoryFlagNames -> BOOLEAN] :
        /\ Cardinality({x \in HistoryFlagNames : ~g[x]}) <= 1
        /\ g["use_error_logs"] /\ g["use_past_error_logs"] }

\* the observations of a history: the html and the axtree of a page
ObsKinds ==
    { [html |-> Text(2), axtree_txt |-> Text(1)],
      [html |-> <<OneLine("text", 1), OneLine("- item", 0)>>, axtree_txt |-> Text(2)] }

\* History.__init__: one HistoryStep for every two consecutive observations
HistoryElements(history_obs, has_memory) ==
    LET n == Len(history_obs) - 1
        F[i \in 0..n] ==
            IF i = 0 THEN "history" :> History(n)
            ELSE F[i - 1] @@ HistoryStepElements(i - 1, history_obs[i], history_obs[i + 1],
                                                 has_memory)
    IN  F[n]

HistoryRoots ==
    { [r |-> "history", f |-> f, e |-> HistoryElements(h, mem)] :
         f \in HistoryFlags,
         h \in UNION { [1..(n + 1) -> ObsKinds] : n \in 1..MaxSteps },
         mem \in BOOLEAN }

ThinkRoots ==
    { [r |-> "think", f |-> f, e |-> ("think" :> Think(v))] :
         f \in { g \in AllFlags : \A x \in FlagNames \ FlagsOf("think") : g[x] },
         v \in {ConstVisible(TRUE), ConstVisible(FALSE), FlagVisible("use_html", TRUE)} }

Roots ==
    TrunkaterRoots \cup HTMLRoots \cup AXTreeRoots \cup ObservationRoots
    \cup DiffRoots \cup HistoryRoots \cup ThinkRoots

\* no retry session runs
RetryIdle ==
    /\ fn = "none"
    /\ n_retry = 0
    /\ min_retry_wait_time = 0
    /\ rate_limit_max_wait_time = 0
    /\ initial = <<>>
    /\ messages = <<>>
    /\ tries = 0
    /\ rate_limit_total_delay = 0
    /\ pc = "Off"
    /\ answer = NoAnswer
    /\ error = <<>>
    /\ wait_time = 0
    /\ result = NoValue
    /\ invocations = 0
    /\ sleeps = 0

PromptInit ==
    /\ RetryIdle
    /\ FunctionsIdle
    /\ \E c \in Roots :
          /\ root = c.r
          /\ flags = c.f
          /\ el = c.e
    /\ image = 0
    /\ fpc = "Idle"
    /\ max_prompt_tokens = [none |-> TRUE, v |-> 0]
    /\ max_iterations = 0
    /\ iter = 0
    /\ prompt = NoPrompt
    /\ n_token = 0
    /\ shrinks = 0
    /\ fit_shrinks = 0
    /\ flips = 0

(* ------------------------- calls of shrink() --------------------------- *)

\* the caller calls shrinkable.shrink()
ShrinkCall ==
    /\ fpc = "Idle"
    /\ root \in Shrinkables
    /\ shrinks < MaxShrinkCalls
    /\ el' = RootShrink
    /\ shrinks' = shrinks + 1
    /\ UNCHANGED <<rvars, fvars, root, flags, image, fpc, max_prompt_tokens,
                   max_iterations, iter, prompt, n_token, fit_shrinks, flips>>

\* a flag changes between two calls
FlipFlag ==
    /\ fpc \in {"Idle", "Loop"}
    /\ flips < MaxFlips
    /\ \E f \in FlagsOf(root) : flags' = [flags EXCEPT ![f] = ~@]
    /\ flips' = flips + 1
    /\ UNCHANGED <<rvars, fvars, root, el, image, fpc, max_prompt_tokens,
                   max_iterations, iter, prompt, n_token, shrinks, fit_shrinks>>

PromptNext ==
    \/ ShrinkCall
    \/ FlipFlag

PromptSpec == PromptInit /\ [][PromptNext]_vars

(* ------------------------------ fit_tokens ----------------------------- *)

\* the roots fit_tokens is called on: the Trunkaters with a text of at most
\* MaxLines lines, and the Observations
FitRoots ==
    { c \in Roots :
        /\ c.r \in {"trunkater", "html", "ax_tree", "observation"}
        /\ c.r = "trunkater" => Len(c.e["trunkater"].text) <= MaxLines }

FitInit ==
    /\ RetryIdle
    /\ FunctionsIdle
    /\ \E c \in FitRoots :
          /\ root = c.r
          /\ flags = c.f
          /\ el = c.e
    /\ image \in (IF root = "observation" THEN {0, 1} ELSE {0})
    /\ fpc = "Idle"
    /\ max_prompt_tokens = [none |-> TRUE, v |-> 0]
    /\ max_iterations = 0
    /\ iter = 0
    /\ prompt = NoPrompt
    /\ n_token = 0
    /\ shrinks = 0
    /\ fit_shrinks = 0
    /\ flips = 0

\* the caller calls shrinkable.shrink() before it calls fit_tokens
PreShrink ==
    /\ fpc = "Idle"
    /\ shrinks < MaxPreShrinks
    /\ el' = RootShrink
    /\ shrinks' = shrinks + 1
    /\ UNCHANGED <<rvars, fvars, root, flags, image, fpc, max_prompt_tokens,
                   max_iterations, iter, prompt, n_token, fit_shrinks, flips>>

TokenBudgets == {0, MaxTokens \div 3, MaxTokens}

\* fit_tokens(shrinkable, max_prompt_tokens, max_iterations)
FitCall ==
    /\ fpc = "Idle"
    /\ max_prompt_tokens' \in
          {[none |-> TRUE, v |-> 0]} \cup {[none |-> FALSE, v |-> t] : t \in TokenBudgets}
    /\ max_iterations' \in 0..MaxIterations
    /\ fpc' = "Loop"
    /\ UNCHANGED <<rvars, fvars, root, flags, el, image, iter, prompt, n_token,
                   shrinks, fit_shrinks, flips>>

\* "\n".join([p["text"] for p in prompt if p["type"] == "text"])
JoinTextParts(parts) ==
    LET texts == SelectSeq(parts, LAMBDA q : q.type = "text")
        J[i \in 1..Len(texts)] ==
            IF i = 1 THEN texts[1].text
            ELSE Cat(Cat(J[i - 1], Newline), texts[i].text)
    IN  IF texts = <<>> THEN EmptyStr ELSE J[Len(texts)]

PromptStrWithImage(p) ==
    IF ~p.list
    THEN p.parts[1].text
    ELSE Cat(JoinTextParts(p.parts), <<OneLine("image_url", p.parts[Len(p.parts)].image_url)>>)

\* prompt_str
PromptStr(p) == IF ~p.list THEN p.parts[1].text ELSE JoinTextParts(p.parts)

\* n_token <= max_prompt_tokens
Fits(n, budget) == n <= budget

FitNoneShrinking ==
    /\ fpc = "Loop"
    /\ max_prompt_tokens.none
    /\ prompt' = RootPrompt
    /\ el' = RootShrink
    /\ fpc' = "Returned"
    /\ UNCHANGED <<rvars, fvars, root, flags, image, max_prompt_tokens,
                   max_iterations, iter, n_token, shrinks, fit_shrinks, flips>>

\* if max_prompt_tokens is None: return shrinkable.prompt
FitNone ==
    /\ fpc = "Loop"
    /\ max_prompt_tokens.none
    /\ prompt' = RootPrompt
    /\ fpc' = "Returned"
    /\ UNCHANGED <<rvars, fvars, root, flags, el, image, max_prompt_tokens,
                   max_iterations, iter, n_token, shrinks, fit_shrinks, flips>>

\* an iteration that ends in return prompt
FitReturn ==
    /\ fpc = "Loop"
    /\ ~max_prompt_tokens.none
    /\ iter < max_iterations
    /\ Fits(count_tokens(PromptStr(RootPrompt)), max_prompt_tokens.v)
    /\ iter' = iter + 1
    /\ prompt' = RootPrompt
    /\ n_token' = count_tokens(PromptStr(RootPrompt))
    /\ fpc' = "Returned"
    /\ UNCHANGED <<rvars, fvars, root, flags, el, image, max_prompt_tokens,
                   max_iterations, shrinks, fit_shrinks, flips>>

\* an iteration that ends in shrinkable.shrink()
FitShrink ==
    /\ fpc = "Loop"
    /\ ~max_prompt_tokens.none
    /\ iter < max_iterations
    /\ ~Fits(count_tokens(PromptStr(RootPrompt)), max_prompt_tokens.v)
    /\ iter' = iter + 1
    /\ prompt' = RootPrompt
    /\ n_token' = count_tokens(PromptStr(RootPrompt))
    /\ el' = RootShrink
    /\ fit_shrinks' = fit_shrinks + 1
    /\ UNCHANGED <<rvars, fvars, root, flags, image, fpc, max_prompt_tokens,
                   max_iterations, shrinks, flips>>

\* after the loop: logging.info(f"... {count_tokens(prompt_str)} ...") and
\* return prompt; both locals are unbound when the loop body never ran
Exhausted(i) == IF i = 0 THEN "UnboundLocalError" ELSE "Returned"

FitExhausted ==
    /\ fpc = "Loop"
    /\ ~max_prompt_tokens.none
    /\ iter >= max_iterations
    /\ fpc' = Exhausted(iter)
    /\ UNCHANGED <<rvars, fvars, root, flags, el, image, max_prompt_tokens,
                   max_iterations, iter, prompt, n_token, shrinks, fit_shrinks, flips>>

FitNext ==
    \/ PreShrink
    \/ FlipFlag
    \/ FitCall
    \/ FitNone
    \/ FitReturn
    \/ FitShrink
    \/ FitExhausted

FitSpec == FitInit /\ [][FitNext]_vars

(* ------------------------------ calls of diff -------------------------- *)

\* the lines of the texts compared
DiffLineKinds ==
    { OneLine("text", 1), OneLine("text", 2), OneLine("- item", 0), OneLine("+1", 0) }

\* the texts of at most MaxDiffLen lines: "" and the joins of their lines
DiffTexts ==
    {EmptyStr} \cup UNION { [1..n -> DiffLineKinds] : n \in 1..MaxDiffLen }

DiffInit ==
    /\ RetryIdle
    /\ PromptIdle
    /\ previous \in DiffTexts
    /\ new \in DiffTexts
    /\ diffed = [done |-> FALSE]
    /\ arg_text = <<>>
    /\ arg_keys = <<>>
    /\ arg_optional_keys = <<>>
    /\ arg_merge_multiple = FALSE
    /\ parsed = [done |-> FALSE]

\* header, diff_lines = diff(previous, new)
DiffCall ==
    /\ ~diffed.done
    /\ diffed' = [done |-> TRUE,
                  header |-> diff(previous, new).header,
                  diff_lines |-> diff(previous, new).diff_lines]
    /\ UNCHANGED <<rvars, pvars, previous, new, arg_text, arg_keys,
                   arg_optional_keys, arg_merge_multiple, parsed>>

DiffNext == DiffCall

DiffSpec == DiffInit /\ [][DiffNext]_vars

(* ------------------------- calls of parse_html_tags -------------------- *)

KeyNames == {"action", "think"}

\* the lists of at most MaxKeys keys, a key possibly listed more than once
KeyLists == UNION { [1..n -> KeyNames] : n \in 0..MaxKeys }

\* the pieces of the texts parsed
ParseSegments ==
    { Tag("action", "go"), Tag("action", "click "), Tag("think", ""), Plain("hm") }

ParseTexts == UNION { [1..n -> ParseSegments] : n \in 0..MaxTags }

ParseInit ==
    /\ RetryIdle
    /\ PromptIdle
    /\ previous = <<>>
    /\ new = <<>>
    /\ diffed = [done |-> FALSE]
    /\ arg_text \in ParseTexts
    /\ arg_keys \in KeyLists
    /\ arg_optional_keys \in KeyLists
    /\ arg_merge_multiple \in BOOLEAN
    /\ parsed = [done |-> FALSE]

\* content_dict, valid, retry_message = parse_html_tags(text, keys, optional_keys, merge_multiple)
ParseCall ==
    /\ ~parsed.done
    /\ parsed' = [done |-> TRUE,
                  r |-> parse_html_tags(arg_text, arg_keys, arg_optional_keys,
                                        arg_merge_multiple)]
    /\ UNCHANGED <<rvars, pvars, previous, new, diffed, arg_text, arg_keys,
                   arg_optional_keys, arg_merge_multiple>>

ParseNext == ParseCall

ParseSpec == ParseInit /\ [][ParseNext]_vars

(* ------------------------------ claims --------------------------------- *)

\* the turns the session has appended
Appended == (Len(initial) + 1)..Len(messages)

\* the replies in the conversation that the parser rejects
RejectedReplies ==
    { i \in Appended : messages[i].role = "ai" /\ ~parser(messages[i].content).valid }

\* a step in which the endpoint signals a rate limit or the driver handles it
RateLimitStep == pc = "RateLimited" \/ pc' = "RateLimited"

\* C1: a rate-limit signal changes neither tries nor the conversation (nor the
\* value returned); in every state tries is the number of replies rejected.
C1_RateLimitLeavesTries ==
    /\ [](tries = Cardinality(RejectedReplies))
    /\ [][RateLimitStep =>
            /\ tries' = tries
            /\ messages' = messages
            /\ result' = result
            /\ params' = params]_vars

C1_Witness ==
    /\ sleeps >= 2
    /\ rate_limit_total_delay > 0
    /\ tries >= 1
    /\ pc = "Sending"

NoRateLimitSignal == sleeps = 0 /\ pc # "RateLimited"

\* C2: for n_retry >= 1, with every reply rejected and no rate-limit signal,
\* the endpoint is invoked exactly n_retry times before RetryError, and never
\* more than n_retry times.
C2_ExactlyNRetryInvocations ==
    (n_retry >= 1 /\ NoRateLimitSignal) =>
        /\ invocations <= n_retry
        /\ pc = "RetryError" => invocations = n_retry

\* C3: about to invoke the endpoint, the conversation has grown by two turns
\* per parse failure; a session that returns has rejected tries < n_retry
\* replies and its conversation has grown by 2 * tries + 1 turns, the last one
\* the accepted reply.
C3_ConversationLength ==
    /\ pc = "Sending" => Len(messages) = Len(initial) + 2 * tries
    /\ pc = "Returned" =>
          /\ tries < n_retry
          /\ Len(messages) = Len(initial) + 2 * tries + 1
          /\ tries = Cardinality(RejectedReplies)
          /\ result = parser(messages[Len(messages)].content).value

C3_Witness ==
    /\ pc = "Returned"
    /\ tries = 2
    /\ sleeps >= 1
    /\ Len(messages) = Len(initial) + 5

\* C4: in every step the conversation before the step is a prefix of the
\* conversation after it.
C4_AppendOnly == [][IsPrefix(messages, messages')]_vars

C4_Witness ==
    /\ pc \in {"RetryError", "RateLimitError"}
    /\ tries >= 2
    /\ Len(messages) = Len(initial) + 4

LastTurn == messages[Len(messages)]

\* C5 as stated: a session that ends in RetryError has no corrective turn as
\* its last turn (the parse failure that exhausts the tries appends none).
C5_NoCorrectiveTurnAtExhaustion ==
    (pc = "RetryError" /\ tries >= 1) => LastTurn.role = "ai"

\* C5 amended: every rejected reply in the conversation is directly followed
\* by the corrective turn built from its correction message, also the one
\* that brought tries to n_retry; after that one the session is in RetryError.
C5_CorrectiveTurnAfterEveryReject ==
    /\ \A i \in RejectedReplies :
          /\ i < Len(messages)
          /\ messages[i + 1] = HumanMessage(parser(messages[i].content).retry_message)
    /\ (tries >= 1 /\ tries >= n_retry) =>
          /\ pc = "RetryError"
          /\ LastTurn.role = "human"
          /\ Len(messages) = Len(initial) + 2 * tries

C5_Witness ==
    /\ pc = "RetryError"
    /\ tries = n_retry
    /\ tries >= 1
    /\ LastTurn.role = "human"

\* C6: the step that handles a rate-limit signal ends in the rate-limit error
\* when the accrued delay has reached the maximum and goes back to invoking
\* the endpoint when it has not; nothing happens after the error.
C6_ReRaiseAtMaxWait ==
    /\ [][pc = "RateLimited" =>
            IF rate_limit_total_delay' >= rate_limit_max_wait_time
            THEN pc' = "RateLimitError"
            ELSE pc' = "Sending"]_vars
    /\ [][pc # "RateLimitError"]_vars

C6_Witness ==
    /\ pc = "RateLimitError"
    /\ sleeps >= 2
    /\ invocations >= 2
    /\ rate_limit_total_delay >= rate_limit_max_wait_time

\* C7: RetryError is raised only when the parser has rejected n_retry replies.
C7_RetryErrorOnlyAfterNRetryRejects ==
    pc = "RetryError" => tries >= n_retry

\* the number of seconds the hint of an error text names, -1 without a hint
HintOf(e) ==
    IF \E h \in 0..MaxHint : e = HintMessage(h)
    THEN CHOOSE h \in 0..MaxHint : e = HintMessage(h)
    ELSE -1

\* C8: the duration slept on a rate-limit signal is max(min_retry_wait_time,
\* hint) with a hint and min_retry_wait_time without one, never less than
\* min_retry_wait_time, and it is what the accrued delay grows by.
C8_SleepIsFlooredHint ==
    [][pc = "RateLimited" =>
         /\ wait_time' = IF HintOf(error) >= 0
                         THEN Max(min_retry_wait_time, HintOf(error))
                         ELSE min_retry_wait_time
         /\ wait_time' >= min_retry_wait_time
         /\ rate_limit_total_delay' = rate_limit_total_delay + wait_time'
         /\ sleeps' = Bump(sleeps)]_vars

C8_Witness ==
    /\ sleeps >= 1
    /\ pc # "RateLimited"
    /\ HintOf(error) >= 1
    /\ HintOf(error) < min_retry_wait_time
    /\ wait_time = min_retry_wait_time
    /\ rate_limit_total_delay >= wait_time

\* C9: a session that has returned returned the parsed value of the first
\* reply the parser accepts, that reply is the last turn, and no step follows.
C9_StopsAtFirstAcceptedReply ==
    /\ [](pc = "Returned" =>
            /\ LastTurn = answer
            /\ LastTurn.role = "ai"
            /\ parser(LastTurn.content).valid
            /\ result = parser(LastTurn.content).value
            /\ \A i \in Appended :
                  (messages[i].role = "ai" /\ i < Len(messages)) => i \in RejectedReplies)
    /\ [][pc # "Returned"]_vars

C9_Witness ==
    /\ pc = "Returned"
    /\ tries >= 1
    /\ sleeps >= 1
    /\ result # NoValue

\* C10: every session terminates in one of the three outcomes.
C10_Terminates == <>(pc \in Terminal)

\* C11: the time slept because of rate-limit signals, summed over a session,
\* never exceeds rate_limit_max_wait_time.
C11_SleptNeverExceedsMax ==
    rate_limit_total_delay <= rate_limit_max_wait_time

\* the text of RetryError holds the text t
RetryErrorHolds(t) ==
    \E i \in DOMAIN RetryErrorParts :
        RetryErrorParts[i].kind = "text" /\ RetryErrorParts[i].text = t

\* C12 as stated: the RetryError raised after a rejected reply holds the last
\* reply and the last correction message.
C12_RetryErrorHoldsReplyAndCorrection ==
    (pc = "RetryError" /\ tries >= 1) =>
        /\ RetryErrorHolds(answer.content)
        /\ RetryErrorHolds(parser(answer.content).retry_message)

\* C12 amended: the RetryError raised after a rejected reply is built from
\* n_retry alone; the last reply and the last correction message are the last
\* two turns of the conversation the caller passed in.
C12_ReplyAndCorrectionEndConversation ==
    (pc = "RetryError" /\ tries >= 1) =>
        /\ \A i \in DOMAIN RetryErrorParts : RetryErrorParts[i] = IntPart(n_retry)
        /\ Len(messages) >= Len(initial) + 2
        /\ messages[Len(messages) - 1] = answer
        /\ ~parser(answer.content).valid
        /\ LastTurn = HumanMessage(parser(answer.content).retry_message)

C12_Witness ==
    /\ pc = "RetryError"
    /\ tries = 2
    /\ messages[Len(messages) - 1] = answer
    /\ messages[Len(messages) - 3] # answer


\* C13: fit_tokens with max_prompt_tokens = None returns the root's current
\* rendered prompt and never calls shrink: the step that leaves the call
\* returns shrinkable.prompt and leaves every element (shrink_calls,
\* deleted_lines, text) as it was.
C13_NoneReturnsPromptUnshrunk ==
    [][(fpc = "Loop" /\ max_prompt_tokens.none /\ fpc' # fpc) =>
          /\ fpc' = "Returned"
          /\ prompt' = RootPrompt
          /\ el' = el
          /\ fit_shrinks = 0 /\ fit_shrinks' = 0]_vars

\* a None call has returned the prompt of a root the caller had shrunk before
C13_Witness ==
    /\ fpc = "Returned"
    /\ max_prompt_tokens.none
    /\ shrinks > 0
    /\ prompt = RootPrompt
    /\ \E t \in Trunkaters : el[t].deleted_lines > 0

\* C14: with a budget, every iteration of fit_tokens counts the tokens of the
\* text parts of the rendering only (an image part adds nothing), returns the
\* rendering when the count is within the budget and calls shrink() exactly
\* when it is not; shrink() is called nowhere else in fit_tokens.
C14_ShrinkOnlyAfterOverBudgetRender ==
    [][/\ (iter' # iter) =>
            LET n == count_tokens(RootText)
            IN  /\ n_token' = n
                /\ prompt' = RootPrompt
                /\ IF n <= max_prompt_tokens.v
                   THEN fpc' = "Returned" /\ el' = el /\ fit_shrinks' = fit_shrinks
                   ELSE fpc' = "Loop" /\ el' = RootShrink /\ fit_shrinks' = fit_shrinks + 1
       /\ (fit_shrinks' # fit_shrinks) => iter' # iter]_vars

\* a list prompt with an image part is returned within the budget after
\* fit_tokens has called shrink()
C14_Witness ==
    /\ fpc = "Returned"
    /\ ~max_prompt_tokens.none
    /\ prompt.list
    /\ fit_shrinks > 0
    /\ n_token <= max_prompt_tokens.v
    /\ count_tokens(PromptStr(prompt)) = n_token

\* C15: fit_tokens never raises, whatever max_iterations >= 0 is.
C15_FitTokensNeverRaises == fpc # "UnboundLocalError"

\* C16: no call of shrink() increases the size of the rendered fragment, in
\* lines or in tokens.
C16_ShrinkNeverGrows ==
    [][(el' # el) =>
          /\ Len(RootText') <= Len(RootText)
          /\ count_tokens(RootText') <= count_tokens(RootText)]_vars

\* no line of the text is left: it is the marker alone
FullyShrunk(e) == e.text = DeletedMarker(e.deleted_lines)

\* C17: a shrinkable saturates: once every Trunkater of the root is at its
\* minimal representation, a further shrink() leaves the rendering unchanged.
C17_FullyShrunkIsFixedPoint ==
    [][((el' # el) /\ Trunkaters # {} /\ \A t \in Trunkaters : FullyShrunk(el[t])) =>
          RootText' = RootText]_vars

IsMarker(line) ==
    line # <<>> /\ line[1].k = "... Deleted lines to reduce prompt size."

\* the step is a call of shrink() that truncates the Trunkater t
Truncates(t) ==
    /\ el'[t] # el[t]
    /\ is_visible(el[t])
    /\ el[t].shrink_calls >= el[t].start_trunkate_iteration

\* C18: a truncating shrink() of a Trunkater whose text has n lines keeps the
\* first floor(n * (1 - shrink_speed)) lines, ends the text with the one
\* marker line it holds, and does not decrease deleted_lines.
C18_KeepsFloorOfFraction ==
    [][\A t \in Trunkaters : Truncates(t) =>
          LET lines == splitlines(el[t].text)
              k == NewLineCountExact(Len(lines), el[t].shrink_speed)
              out == el'[t].text
          IN  /\ out = Cat(join(SubSeq(lines, 1, k)), DeletedMarker(el'[t].deleted_lines))
              /\ IsMarker(out[Len(out)])
              /\ Cardinality({i \in 1..Len(out) : IsMarker(out[i])}) = 1
              /\ el'[t].deleted_lines >= el[t].deleted_lines]_vars

\* lines of the original text that the text still holds
OriginalLines(e) ==
    Cardinality({i \in 1..Len(e.text) : e.text[i] # <<>> /\ ~IsMarker(e.text[i])})

\* C19: deleted_lines is the number of lines of the original text that have
\* been removed: every call adds to it exactly the original lines it removes.
C19_DeletedLinesCountsOriginalLines ==
    [][root = "trunkater" =>
          el'["trunkater"].deleted_lines - el["trunkater"].deleted_lines
             = OriginalLines(el["trunkater"]) - OriginalLines(el'["trunkater"])]_vars

\* C20: the first start_trunkate_iteration calls of shrink() on a Trunkater
\* (5 for HTML, 10 for AXTree) only advance shrink_calls; every later call on
\* a visible Trunkater rewrites the text, which then ends with the marker
\* stating deleted_lines.
C20_GracePeriod ==
    [][\A t \in Trunkaters : (el'[t] # el[t]) =>
          /\ el'[t].shrink_calls = el[t].shrink_calls + 1
          /\ t = "html" => el[t].start_trunkate_iteration = 5
          /\ t = "ax_tree" => el[t].start_trunkate_iteration = 10
          /\ IF el[t].shrink_calls < el[t].start_trunkate_iteration
             THEN /\ el'[t].text = el[t].text
                  /\ el'[t].deleted_lines = el[t].deleted_lines
                  /\ el[t].deleted_lines = 0
             ELSE is_visible(el[t]) =>
                    /\ el'[t].text # el[t].text
                    /\ IsMarker(el'[t].text[Len(el'[t].text)])
                    /\ el'[t].text[Len(el'[t].text)][1].n = el'[t].deleted_lines
                    /\ el'[t].deleted_lines >= el[t].deleted_lines]_vars

\* an Observation whose HTML was first truncated by call 6 and whose AXTree
\* was first truncated by call 11
C20_Witness ==
    /\ root = "observation"
    /\ shrinks = AXTreeStart + 1
    /\ flips = 0
    /\ el["ax_tree"].shrink_calls = AXTreeStart + 1
    /\ el["ax_tree"].deleted_lines > 0
    /\ el["ax_tree"].deleted_lines < el["html"].deleted_lines
    /\ IsMarker(el["html"].text[Len(el["html"].text)])

\* the lines of ndiff(previous, new) that are not common to both texts
ChangedLines ==
    SelectSeq(ndiff(splitlines(previous), splitlines(new)),
              LAMBDA l : l[1].k \in {"+ ", "- "})

\* C26: diff returns ("Identical", []) for equal texts, the empty-previous
\* marker and no line when previous is empty, and otherwise exactly the added
\* and removed lines under a header whose two counts are the numbers of added
\* and of removed lines: an unchanged line is neither returned nor counted.
C26_DiffReturnsChangedLinesOnly ==
    diffed.done =>
        IF previous = new
        THEN diffed.header = <<Atom("Identical", 0)>> /\ diffed.diff_lines = <<>>
        ELSE IF previous = EmptyStr
        THEN diffed.header = <<Atom("previous is empty", 0)>> /\ diffed.diff_lines = <<>>
        ELSE /\ diffed.diff_lines = ChangedLines
             /\ diffed.header =
                   CountsHeader(Len(SelectSeq(ChangedLines, LAMBDA l : l[1].k = "+ ")),
                                Len(SelectSeq(ChangedLines, LAMBDA l : l[1].k = "- ")))
             /\ diffed.header[1].n + diffed.header[2].n = Len(diffed.diff_lines)

\* C21: after k calls of shrink() the max_line_diff of a Diff is
\* max(1, initial - k * shrink_speed); a call lowers it by shrink_speed, never
\* below 1, and never raises it.
C21_DiffCeiling ==
    [][\A d \in Diffs :
          /\ el'[d].max_line_diff =
                Max(1, el'[d].first_max_line_diff - el'[d].calls * el'[d].shrink_speed)
          /\ el'[d].max_line_diff >= 1
          /\ el'[d].max_line_diff <= el[d].max_line_diff
          /\ (el'[d] # el[d]) =>
                /\ el'[d].calls = el[d].calls + 1
                /\ el'[d].max_line_diff = Max(1, el[d].max_line_diff - el[d].shrink_speed)]_vars

\* a Diff built with max_line_diff 4 and shrink_speed 2 is held at 1 by the
\* third call
C21_Witness ==
    /\ root = "diff"
    /\ el["diff"].first_max_line_diff = 4
    /\ el["diff"].shrink_speed = 2
    /\ el["diff"].calls = 3
    /\ el["diff"].max_line_diff = 1

\* C22: after k calls of shrink() on an Observation or a History, its HTML and
\* AXTree, every HistoryStep and both Diffs of every step have received
\* exactly k calls, visible or not.
C22_CompositesPropagateShrink ==
    /\ root = "observation" =>
          /\ el["html"].shrink_calls = shrinks
          /\ el["ax_tree"].shrink_calls = shrinks
    /\ root = "history" =>
          /\ el["history"].calls = shrinks
          /\ \A st \in Steps : el[st].calls = shrinks
          /\ \A d \in Diffs :
                /\ el[d].calls = shrinks
                /\ el[d].max_line_diff = Max(1, 20 - shrinks)

\* a hidden History with two steps has been shrunk three times
C22_Witness ==
    /\ root = "history"
    /\ ~is_visible(el["history"])
    /\ el["history"].n_steps = 2
    /\ shrinks = 3
    /\ el[AxTreeDiffName(1)].calls = 3

\* the lines of a text at which the line l stands
LinesAt(txt, l) == { j \in 1..Len(txt) : txt[j] = l }

\* C24: a visible HTML or AXTree keeps its header line under shrink(), an
\* Observation keeps its header line, and a visible History keeps its header
\* line and the header lines of its steps, in order.
C24_HeadersSurviveShrink ==
    /\ \A t \in Trunkaters \cap {"html", "ax_tree"} :
          is_visible(el[t]) =>
              /\ Len(ElementPrompt(el[t])) >= 2
              /\ ElementPrompt(el[t])[1] = <<>>
              /\ ElementPrompt(el[t])[2] =
                    OneLine(IF t = "html" THEN "## HTML:" ELSE "## AXTree:", 0)
    /\ root = "observation" =>
          RootText[2] = OneLine("# Observation of current step:", 0)
    /\ (root = "history" /\ is_visible(el["history"])) =>
          /\ RootText[1] = OneLine("# History of interaction with the task:", 0)
          /\ \A i \in 0..(el["history"].n_steps - 1) :
                Cardinality(LinesAt(RootText, OneLine("## step", i))) = 1
          /\ \A i, j \in 0..(el["history"].n_steps - 1) :
                i < j => \A x \in LinesAt(RootText, OneLine("## step", i)) :
                         \A y \in LinesAt(RootText, OneLine("## step", j)) : x < y

\* an HTML truncated down to its header and the marker
C24_Witness ==
    /\ root = "html"
    /\ is_visible(el["html"])
    /\ el["html"].deleted_lines >= 3
    /\ Len(el["html"].text) = 3
    /\ shrinks = MaxShrinkCalls

\* what the visibility of an element evaluates to under the flags as they are
VisibleNow(e) ==
    IF e.visible.flag = ""
    THEN e.visible.const
    ELSE /\ flags[e.visible.flag]
         /\ e.visible.flag2 = "" \/ flags[e.visible.flag2]
         /\ e.visible.const

\* C23: after any calls of shrink() and any flag changes, an element whose
\* visibility evaluates to false under the flags as they are now renders
\* prompt, abstract_ex and concrete_ex as the empty string, and an element
\* whose visibility evaluates to true renders what it holds.
C23_HiddenRendersEmpty ==
    \A nm \in DOMAIN el :
        IF VisibleNow(el[nm])
        THEN /\ "text" \in DOMAIN el[nm] => PromptOf(nm) = el[nm].text
             /\ "abstract_ex" \in DOMAIN el[nm] =>
                   /\ abstract_ex(el[nm]) = el[nm].abstract_ex
                   /\ concrete_ex(el[nm]) = el[nm].concrete_ex
        ELSE /\ PromptOf(nm) = EmptyStr
             /\ abstract_ex(el[nm]) = EmptyStr
             /\ concrete_ex(el[nm]) = EmptyStr

\* the HTML of an Observation was truncated while visible and is hidden by a
\* flag changed since: the next render leaves it out
C23_Witness ==
    /\ root = "observation"
    /\ flips = 1
    /\ ~flags["use_html"]
    /\ el["html"].deleted_lines > 0
    /\ el["html"].text # EmptyStr
    /\ PromptOf("html") = EmptyStr

\* C28: whenever fit_tokens returns, the fragment it returns is what the
\* root renders in the state it is left in (no flag changed meanwhile).
C28_ReturnedIsCurrentRender ==
    (fpc = "Returned" /\ flips = 0) => prompt = RootPrompt

\* C29: a call of shrink() on a Trunkater whose visibility evaluates to false
\* leaves text and deleted_lines as they are and adds one to shrink_calls;
\* a call on a visible one with shrink_calls >= start_trunkate_iteration,
\* however many of these calls were made while hidden, truncates: the text
\* is rewritten and ends with the marker of the new deleted_lines.
C29_HiddenCallsCount ==
    [][shrinks' = shrinks + 1 =>
         \A t \in Trunkaters :
            /\ el'[t].shrink_calls = el[t].shrink_calls + 1
            /\ ~VisibleNow(el[t]) =>
                  /\ el'[t].text = el[t].text
                  /\ el'[t].deleted_lines = el[t].deleted_lines
            /\ (VisibleNow(el[t])
                /\ el[t].shrink_calls >= el[t].start_trunkate_iteration) =>
                  /\ el'[t].deleted_lines >= el[t].deleted_lines
                  /\ el'[t].text # el[t].text
                  /\ el'[t].text[Len(el'[t].text)] =
                        DeletedMarker(el'[t].deleted_lines)[2]]_vars

\* a Trunkater truncated once in more calls than the grace period and one:
\* it was hidden until the flag changed, the calls made while hidden used up
\* the grace period, and the first call made since has truncated it
C29_Witness ==
    /\ root = "trunkater"
    /\ flips = 1
    /\ el["trunkater"].visible.flag # ""
    /\ VisibleNow(el["trunkater"])
    /\ el["trunkater"].start_trunkate_iteration = MaxStart
    /\ el["trunkater"].shrink_calls = MaxStart + 2
    /\ el["trunkater"].deleted_lines > 0
    /\ el["trunkater"].text = Cat(<<OneLine("text", 1)>>, DeletedMarker(1))

\* C27: retry and retry_raise are equivalent drivers: on a reply, the step
\* the running driver takes (the conversation, tries, the accrued delay, the
\* invocations and sleeps, the value returned and where it goes next) is the
\* step either driver takes with its own parser, the tuple-returning one or
\* the raising one.
C27_DriversEquivalent ==
    [][pc = "Answered" =>
         \A f \in {"retry", "retry_raise"} :
            LET r == Parse(f, answer.content)
            IN  /\ IF r.valid
                   THEN /\ messages' = Append(messages, answer)
                        /\ result' = r.value
                        /\ tries' = tries
                        /\ pc' = "Returned"
                   ELSE /\ messages' = Append(Append(messages, answer),
                                              HumanMessage(r.retry_message))
                        /\ result' = result
                        /\ tries' = tries + 1
                        /\ pc' = LoopTest(tries + 1, rate_limit_total_delay)
                /\ UNCHANGED <<rate_limit_total_delay, invocations, sleeps>>]_vars

\* retry_raise has returned a value after a rejected reply and a sleep
C27_Witness ==
    /\ fn = "retry_raise"
    /\ pc = "Returned"
    /\ tries > 0
    /\ sleeps > 0
    /\ Len(messages) > Len(initial) + 2

\* how often the key occurs in the text parsed
Occurrences(key) == Len(Matches(arg_text, key))

ListedKeys == SeqRange(arg_keys) \cup SeqRange(arg_optional_keys)

RequiredKeys == SeqRange(arg_keys) \ SeqRange(arg_optional_keys)

\* what "one message per violation" comes to
ViolationMessages ==
    { Plain(MissingMessage(k)) : k \in { x \in RequiredKeys : Occurrences(x) = 0 } }
    \cup { Plain(MultipleMessage(k)) :
              k \in { x \in ListedKeys : Occurrences(x) > 1 /\ ~arg_merge_multiple } }

\* C25: parse_html_tags applies the per-key policy: valid exactly when no
\* required key is absent and (merge_multiple or no key occurs more than
\* once); one message per violation; an absent key is omitted; a key that
\* occurs once maps to its trimmed inner text; a key that occurs several
\* times with merge_multiple maps to its occurrences joined by newline.
C25_PerKeyPolicy ==
    parsed.done =>
        /\ parsed.r.raised = ""
        /\ parsed.r.valid <=>
              /\ \A k \in RequiredKeys : Occurrences(k) > 0
              /\ arg_merge_multiple \/ \A k \in ListedKeys : Occurrences(k) <= 1
        /\ SeqRange(parsed.r.retry_message) = ViolationMessages
        /\ Len(parsed.r.retry_message) = Cardinality(ViolationMessages)
        /\ DOMAIN parsed.r.value = { k \in ListedKeys : Occurrences(k) > 0 }
        /\ \A k \in DOMAIN parsed.r.value :
              /\ Occurrences(k) = 1 => parsed.r.value[k] = <<Matches(arg_text, k)[1]>>
              /\ (Occurrences(k) > 1 /\ arg_merge_multiple) =>
                    parsed.r.value[k] = Matches(arg_text, k)

\* the listings of the same keys in which every key appears once, a required
\* one among keys and an optional one among optional_keys
ListedOnce ==
    { p \in KeyLists \X KeyLists :
         /\ SeqRange(p[1]) \cup SeqRange(p[2]) = ListedKeys
         /\ SeqRange(p[1]) \subseteq SeqRange(arg_keys)
         /\ SeqRange(p[2]) \subseteq SeqRange(arg_optional_keys)
         /\ Len(p[1]) + Len(p[2]) = Cardinality(ListedKeys) }

\* C30: the result of parse_html_tags depends only on the set of the keys
\* listed and on which are required: with a key listed in both lists or
\* twice in one, the fields, the validity and the correction message are
\* those of a listing in which every key appears once.
C30_DuplicateKeysChangeNothing ==
    parsed.done =>
        \E p \in ListedOnce :
            parsed.r = parse_html_tags(arg_text, p[1], p[2], arg_merge_multiple)


====
